---- MODULE Spec2Model ----
(***************************************************************************)
(* UTF-8 -> UTF-16 / UTF-32 conversion of cppunicode.                      *)
(*                                                                         *)
(*   utf_conversions.h : cppunicode::convert, the sentinel-returning       *)
(*                       size-or-fill routine, with its header and trail   *)
(*                       byte helpers.                                     *)
(*   unic.h            : unic::from_utf8_range (lazy decoding iterator),   *)
(*                       unic::to_utf16_iter (UTF-16 encoder), and the     *)
(*                       range functions to_utf16_size, to_utf32, to_utf16.*)
(*                                                                         *)
(* Bytes are 0..255, UTF-16 units 0..65535, code points char32_t values.   *)
(* Cursors are offsets from the start of the byte range: the byte under a  *)
(* cursor c is src[c + 1], and the end of the range is Len(src).           *)
(***************************************************************************)
EXTENDS Integers, Sequences, FiniteSets, TLC

VARIABLES
    src,          \* the caller-owned UTF-8 byte range [begin, end)
    origin,       \* how the caller built src: [wf, cps] (cps: what it encoded)
    pc,           \* the call the caller is in
    u8_begin,     \* convert: the read cursor
    outstr_size,  \* convert: the running unit count
    u16out,       \* convert: the units written through the destination
    code_points,  \* the code points the running call has decoded so far
    m_begin,      \* from_utf8_range::iterator: the cursor
    size,         \* to_utf16_size: the running unit count
    m_iter,       \* to_utf16_iter: the units written through the sink
    out32,        \* to_utf32: the code points written through the sink
    res,          \* results of the finished calls, by call name
    last          \* the outcome of the last single operation

vars == <<src, origin, pc, u8_begin, outstr_size, u16out, code_points,
          m_begin, size, m_iter, out32, res, last>>

-----------------------------------------------------------------------------
(* Bounds of the model.                                                    *)

MaxLen == 4        \* longest arbitrary byte range given to the range functions
MaxCps == 3        \* most code points in a well-formed range
MaxIterLen == 5    \* longest arbitrary byte range under the lazy iterator
MaxSink == 2       \* most appends through one to_utf16_iter

\* Bytes the arbitrary ranges are drawn from: both ends of every class of
\* the header table, and trailing bytes inside and outside [0x80, 0xBF].
SampleBytes == {\h41, \h80, \h90, \hBF, \hC2, \hEF, \hF4, \hF7, \hF8}

\* Bytes the arbitrary ranges under the single iterator are drawn from.
IterBytes == {\h41, \h80, \hC2, \hF0, \hF8, \hFF}

\* The boundary vectors of the design document.
BoundaryVectors ==
    { <<\h80>>, <<\hC2, \h80>>, <<\hE0, \hA0, \h80>>, <<\hF0, \h90, \h80, \h80>>,
      <<\hF0, \h90, \h80>>, <<\hC2, \hFF>> }

\* Code points whose encodings are decoded one at a time: all of ASCII and
\* a window at both ends of every longer length class, surrogates excluded.
RoundTripCps ==
    (\h0 .. \h8F) \cup (\h7F0 .. \h80F) \cup (\hD7F0 .. \hD7FF) \cup (\hE000 .. \hE00F)
    \cup (\hFFF0 .. \h1000F) \cup (\h10FFF0 .. \h10FFFF)

\* Code points handed to the UTF-16 encoder.  Values of 2^31 and above are
\* left out; like 0x7FFFFFFF they compare above 0x10FFFF.
AppendCps ==
    { \h0, \h41, \hD7FF, \hD800, \hDFFF, \hFFFE, \hFFFF, \h10000, \h10001,
      \h103FF, \h10400, \h10FFFE, \h10FFFF, \h110000, \h1FFFFF, \h7FFFFFFF }

\* Code points the well-formed ranges are encoded from: both ends of every
\* UTF-8 length class and of the BMP / supplementary-plane split.
SampleCps == {\h0, \h41, \h7F, \h80, \h7FF, \h800, \hFFFE, \hFFFF,
              \h10000, \h10FFFF}

\* The standard (shortest-form) UTF-8 encoding of one code point in
\* [0, 0x10FFFF]: how the caller produces a well-formed range.
Utf8Encode(cp) ==
    IF cp < \h80 THEN <<cp>>
    ELSE IF cp < \h800 THEN << \hC0 + (cp \div 64), \h80 + (cp % 64) >>
    ELSE IF cp < \h10000
         THEN << \hE0 + (cp \div 4096), \h80 + ((cp \div 64) % 64), \h80 + (cp % 64) >>
    ELSE << \hF0 + (cp \div 262144), \h80 + ((cp \div 4096) % 64),
            \h80 + ((cp \div 64) % 64), \h80 + (cp % 64) >>

RECURSIVE Utf8EncodeAll(_)
Utf8EncodeAll(c) ==
    IF c = <<>> THEN <<>> ELSE Utf8Encode(Head(c)) \o Utf8EncodeAll(Tail(c))

RECURSIVE SeqsUpTo(_, _)
SeqsUpTo(S, n) ==
    IF n = 0 THEN {<<>>}
    ELSE LET shorter == SeqsUpTo(S, n - 1)
         IN  shorter \cup {Append(s, x) : s \in {t \in shorter : Len(t) = n - 1}, x \in S}

-----------------------------------------------------------------------------
(* utf_conversions.h                                                       *)

\* utf8_trail_byte without its upper bound: every byte from 0x80 on passes.
utf8_trail_byte_no_upper(in, out) ==
    IF in < \h80
    THEN [ok |-> FALSE, out |-> out]
    ELSE [ok |-> TRUE,  out |-> out * 64 + (in % 64)]

\* detail::utf8_trail_byte: the validity result and the new value of `out`.
utf8_trail_byte(in, out) ==
    IF in < \h80 \/ \hBF < in
    THEN [ok |-> FALSE, out |-> out]
    ELSE [ok |-> TRUE,  out |-> out * 64 + (in % 64)]

\* detail::utf8_header_byte: the trailing-byte count (-1: illegal header)
\* and the new value of `out`, which the caller initialised to 0.
utf8_header_byte(in) ==
    IF in < \h80 THEN [cnt |-> 0, out |-> in]
    ELSE IF in < \hC0 THEN [cnt |-> -1, out |-> 0]
    ELSE IF in < \hE0 THEN [cnt |-> 1, out |-> in % 32]
    ELSE IF in < \hF0 THEN [cnt |-> 2, out |-> in % 16]
    ELSE IF in < \hF8 THEN [cnt |-> 3, out |-> in % 8]
    ELSE [cnt |-> -1, out |-> 0]

\* The trail-byte loop of convert: i trailing bytes still to read at cursor
\* `at`, folding them into cp.  Stops at the first byte that is refused.
RECURSIVE convert_trail(_, _, _, _)
convert_trail(s, at, i, cp) ==
    IF i = 0 THEN [ok |-> TRUE, at |-> at, cp |-> cp]
    ELSE LET t == utf8_trail_byte(s[at + 1], cp)
         IN  IF ~t.ok THEN [ok |-> FALSE, at |-> at + 1, cp |-> cp]
             ELSE convert_trail(s, at + 1, i - 1, t.out)

\* convert writing the low unit alone in its two-unit branch.
convert_units_low_only(code_point) ==
    IF code_point < \hFFFF
    THEN <<code_point % 65536>>
    ELSE LET v == (code_point - \h10000) % 67108864
         IN  << ((v % 1024) + \hDC00) % 65536 >>

\* The units convert writes for one code point.  In the two-unit branch the
\* code computes code_point - 0x10000 in char32_t and narrows each result to
\* char16_t; the narrowed values depend only on bits 0..25 of the
\* difference, so the difference is taken modulo 2^26.
convert_units(code_point) ==
    IF code_point < \hFFFF
    THEN <<code_point % 65536>>
    ELSE LET v == (code_point - \h10000) % 67108864
         IN  << ((v \div 1024) + \hD800) % 65536, ((v % 1024) + \hDC00) % 65536 >>

\* The amount convert adds to outstr_size for one code point.
convert_count(code_point) ==
    IF code_point < \hFFFF THEN 1 ELSE 2

-----------------------------------------------------------------------------
(* unic.h                                                                  *)

\* std::countl_one on an unsigned char: the number of leading one bits.
RECURSIVE countl_one(_)
countl_one(b) ==
    IF b < \h80 THEN 0 ELSE 1 + countl_one((b * 2) % 256)

\* from_utf8_range::iterator::compute_byte_count: the total length of the
\* sequence the header announces, -1 on failure.
compute_byte_count(header) ==
    LET cnt == countl_one(header)
    IN  IF cnt = 0 THEN 1
        ELSE IF cnt < 2 \/ cnt > 6 THEN -1
        ELSE cnt

Pow2(n) == 2 ^ n

\* The trailing-byte loop of operator*: bytes i..cnt-1 of the sequence, the
\* next one under cursor `begin`.  Throws at the first byte outside
\* [0x80, 0xBF].  The value never exceeds 31 bits (1 + 5 * 6 for cnt = 6),
\* so no char32_t shift wraps.
RECURSIVE deref_trail(_, _, _, _, _)
deref_trail(s, begin, i, cnt, code_point) ==
    IF ~(i < cnt) THEN [ok |-> TRUE, cp |-> code_point, pos |-> begin]
    ELSE IF s[begin + 1] < \h80 \/ \hBF < s[begin + 1]
         THEN [ok |-> FALSE, cp |-> code_point, pos |-> begin]
         ELSE deref_trail(s, begin + 1, i + 1, cnt,
                          code_point * 64 + (s[begin + 1] % 64))

\* operator* shifting its header mask one bit too far.
deref_narrow_mask(s, m) ==
    LET cnt == compute_byte_count(s[m + 1])
    IN  IF cnt = -1 \/ cnt > Len(s) - m
        THEN [ok |-> FALSE, cp |-> 0, pos |-> m]
        ELSE IF cnt = 1
             THEN [ok |-> TRUE, cp |-> s[m + 1], pos |-> m]
             ELSE deref_trail(s, m + 1, 1, cnt, s[m + 1] % Pow2(6 - cnt))

\* from_utf8_range::iterator::operator* at cursor m (m < Len(s)): the code
\* point, or the position carried by the utf_positioned_error it throws.
deref(s, m) ==
    LET cnt == compute_byte_count(s[m + 1])
    IN  IF cnt = -1 \/ cnt > Len(s) - m
        THEN [ok |-> FALSE, cp |-> 0, pos |-> m]
        ELSE IF cnt = 1
             THEN [ok |-> TRUE, cp |-> s[m + 1], pos |-> m]
             ELSE \* *begin & (0xFF >> (cnt + 1)) keeps the low 7 - cnt bits
                  deref_trail(s, m + 1, 1, cnt, s[m + 1] % Pow2(7 - cnt))

\* from_utf8_range::iterator::operator++ at cursor m (m < Len(s)): the new
\* cursor, or the position carried by the error it throws.
incr(s, m) ==
    LET cnt == compute_byte_count(s[m + 1])
    IN  IF cnt = -1 \/ cnt > Len(s) - m
        THEN [ok |-> FALSE, pos |-> m]
        ELSE [ok |-> TRUE, pos |-> m + cnt]

\* append comparing with < where the code has <= 0xFFFF.
append_lt(code_point) ==
    IF code_point < \hFFFF
    THEN [ok |-> TRUE, units |-> <<code_point>>]
    ELSE IF code_point <= \h10FFFF
         THEN LET v == (code_point - \h10000) % 67108864
              IN  [ok |-> TRUE,
                   units |-> << ((v \div 1024) + \hD800) % 65536,
                                ((v % 1024) + \hDC00) % 65536 >>]
         ELSE [ok |-> FALSE, units |-> <<>>]

\* to_utf16_iter::append: the units written through m_iter, or a throw
\* that writes none.
append(code_point) ==
    IF code_point <= \hFFFF
    THEN [ok |-> TRUE, units |-> <<code_point>>]
    ELSE IF code_point <= \h10FFFF
         THEN LET v == code_point - \h10000
              IN  [ok |-> TRUE,
                   units |-> << (v \div 1024) + \hD800, (v % 1024) + \hDC00 >>]
         ELSE [ok |-> FALSE, units |-> <<>>]

\* to_utf16_size counting two units from 0xFFFF on.
utf16_size_of_lt(code_point) ==
    IF code_point < \hFFFF THEN 1
    ELSE IF code_point <= \h10FFFF THEN 2
    ELSE -1

\* The amount to_utf16_size adds for one code point, -1 where it throws.
utf16_size_of(code_point) ==
    IF code_point <= \hFFFF THEN 1
    ELSE IF code_point <= \h10FFFF THEN 2
    ELSE -1

-----------------------------------------------------------------------------
(* The caller.  It sizes with convert(src, null), then fills with          *)
(* convert(src, buffer); then takes the same range down the lazy path:     *)
(* to_utf16_size(src), to_utf16(src, sink), to_utf32(src, sink).  A call   *)
(* that fails (sentinel or exception) does not stop the caller.            *)

Calls == {"convert_dry", "convert_fill", "to_utf16_size", "to_utf16", "to_utf32"}

NextCall(c) ==
    CASE c = "convert_dry"   -> "convert_fill"
      [] c = "convert_fill"  -> "to_utf16_size"
      [] c = "to_utf16_size" -> "to_utf16"
      [] c = "to_utf16"      -> "to_utf32"
      [] c = "to_utf32"      -> "done"

NoResult == [done |-> FALSE, ok |-> FALSE, ret |-> 0, pos |-> 0, cps |-> <<>>]

\* The running call ends: record its outcome and enter the next call with
\* fresh locals.
Finish(ok, ret, pos, cps) ==
    /\ res' = [res EXCEPT ![pc] = [done |-> TRUE, ok |-> ok, ret |-> ret,
                                   pos |-> pos, cps |-> cps]]
    /\ pc' = NextCall(pc)
    /\ u8_begin' = 0
    /\ outstr_size' = 0
    /\ code_points' = <<>>
    /\ m_begin' = 0
    /\ size' = 0

InConvert == pc \in {"convert_dry", "convert_fill"}

\* One iteration of convert's while loop.
ConvertIter ==
    /\ InConvert
    /\ u8_begin < Len(src)
    /\ LET h    == utf8_header_byte(src[u8_begin + 1])
           past == u8_begin + 1
       IN  IF h.cnt < 0 \/ h.cnt > Len(src) - past
           THEN /\ Finish(FALSE, -1, 0, code_points)
                /\ UNCHANGED u16out
           ELSE LET t == convert_trail(src, past, h.cnt, h.out)
                IN  IF ~t.ok
                    THEN /\ Finish(FALSE, -1, 0, code_points)
                         /\ UNCHANGED u16out
                    ELSE /\ u8_begin' = t.at
                         /\ u16out' = IF pc = "convert_fill"
                                      THEN u16out \o convert_units(t.cp)
                                      ELSE u16out
                         /\ outstr_size' = outstr_size + convert_count(t.cp)
                         /\ code_points' = Append(code_points, t.cp)
                         /\ UNCHANGED <<pc, res, m_begin, size>>
    /\ UNCHANGED <<src, origin, m_iter, out32, last>>

\* convert's loop ends: it returns outstr_size.
ConvertReturn ==
    /\ InConvert
    /\ ~(u8_begin < Len(src))
    /\ Finish(TRUE, outstr_size, 0, code_points)
    /\ UNCHANGED <<src, origin, u16out, m_iter, out32, last>>

\* One iteration of the loop of to_utf16_size over from_utf8_range:
\* for (; beg != end; ++beg) { code_point = *beg; ... }
SizeIter ==
    /\ pc = "to_utf16_size"
    /\ m_begin # Len(src)
    /\ LET d == deref(src, m_begin)
       IN  IF ~d.ok
           THEN Finish(FALSE, 0, d.pos, code_points)
           ELSE IF utf16_size_of(d.cp) = -1
                THEN Finish(FALSE, 0, m_begin, Append(code_points, d.cp))
                ELSE LET i == incr(src, m_begin)
                     IN  IF ~i.ok
                         THEN Finish(FALSE, 0, i.pos, Append(code_points, d.cp))
                         ELSE /\ m_begin' = i.pos
                              /\ size' = size + utf16_size_of(d.cp)
                              /\ code_points' = Append(code_points, d.cp)
                              /\ UNCHANGED <<pc, res, u8_begin, outstr_size>>
    /\ UNCHANGED <<src, origin, u16out, m_iter, out32, last>>

\* to_utf16_size's loop ends: it returns size.
SizeReturn ==
    /\ pc = "to_utf16_size"
    /\ m_begin = Len(src)
    /\ Finish(TRUE, size, 0, code_points)
    /\ UNCHANGED <<src, origin, u16out, m_iter, out32, last>>

\* One iteration of std::ranges::copy(from_utf8_range, to_utf16_iter) in
\* to_utf16: *out = *it (decode, then append), ++it.
Utf16Iter ==
    /\ pc = "to_utf16"
    /\ m_begin # Len(src)
    /\ LET d == deref(src, m_begin)
       IN  IF ~d.ok
           THEN /\ Finish(FALSE, 0, d.pos, code_points)
                /\ UNCHANGED m_iter
           ELSE LET a == append(d.cp)
                IN  IF ~a.ok
                    THEN /\ Finish(FALSE, 0, Len(m_iter), Append(code_points, d.cp))
                         /\ UNCHANGED m_iter
                    ELSE LET i == incr(src, m_begin)
                         IN  IF ~i.ok
                             THEN /\ Finish(FALSE, 0, i.pos, Append(code_points, d.cp))
                                  /\ m_iter' = m_iter \o a.units
                             ELSE /\ m_begin' = i.pos
                                  /\ m_iter' = m_iter \o a.units
                                  /\ code_points' = Append(code_points, d.cp)
                                  /\ UNCHANGED <<pc, res, u8_begin, outstr_size, size>>
    /\ UNCHANGED <<src, origin, u16out, out32, last>>

\* The copy reaches the end of the range: to_utf16 returns.
Utf16Return ==
    /\ pc = "to_utf16"
    /\ m_begin = Len(src)
    /\ Finish(TRUE, Len(m_iter), 0, code_points)
    /\ UNCHANGED <<src, origin, u16out, m_iter, out32, last>>

\* One iteration of std::ranges::copy(from_utf8_range, out) in to_utf32.
Utf32Iter ==
    /\ pc = "to_utf32"
    /\ m_begin # Len(src)
    /\ LET d == deref(src, m_begin)
       IN  IF ~d.ok
           THEN /\ Finish(FALSE, 0, d.pos, code_points)
                /\ UNCHANGED out32
           ELSE LET i == incr(src, m_begin)
                IN  IF ~i.ok
                    THEN /\ Finish(FALSE, 0, i.pos, Append(code_points, d.cp))
                         /\ out32' = Append(out32, d.cp)
                    ELSE /\ m_begin' = i.pos
                         /\ out32' = Append(out32, d.cp)
                         /\ code_points' = Append(code_points, d.cp)
                         /\ UNCHANGED <<pc, res, u8_begin, outstr_size, size>>
    /\ UNCHANGED <<src, origin, u16out, m_iter, last>>

\* The copy reaches the end of the range: to_utf32 returns.
Utf32Return ==
    /\ pc = "to_utf32"
    /\ m_begin = Len(src)
    /\ Finish(TRUE, Len(out32), 0, code_points)
    /\ UNCHANGED <<src, origin, u16out, m_iter, out32, last>>

-----------------------------------------------------------------------------

NoLast == [op |-> "none", at |-> 0, ok |-> TRUE, val |-> 0, pos |-> 0, before |-> <<>>]

InitRange ==
    /\ \/ \E c \in SeqsUpTo(SampleCps, MaxCps) :
             /\ origin = [wf |-> TRUE, cps |-> c]
             /\ src = Utf8EncodeAll(c)
       \/ \E s \in SeqsUpTo(SampleBytes, MaxLen) :
             /\ origin = [wf |-> FALSE, cps |-> <<>>]
             /\ src = s
    /\ pc = "convert_dry"
    /\ u8_begin = 0
    /\ outstr_size = 0
    /\ u16out = <<>>
    /\ code_points = <<>>
    /\ m_begin = 0
    /\ size = 0
    /\ m_iter = <<>>
    /\ out32 = <<>>
    /\ res = [c \in Calls |-> NoResult]
    /\ last = NoLast

\* The outcome of one single operation: which, at which cursor (or on which
\* value), whether it succeeded, its value, the position of the error it
\* threw, and the sink as it was before.
Outcome(op, at, ok, val, pos, before) ==
    [op |-> op, at |-> at, ok |-> ok, val |-> val, pos |-> pos, before |-> before]

NextRange ==
    \/ ConvertIter
    \/ ConvertReturn
    \/ SizeIter
    \/ SizeReturn
    \/ Utf16Iter
    \/ Utf16Return
    \/ Utf32Iter
    \/ Utf32Return

SpecRange == InitRange /\ [][NextRange]_vars

-----------------------------------------------------------------------------
(* One from_utf8_range iterator, starting at begin(), under a caller that  *)
(* dereferences and advances it in any order while it is not at end().     *)

Idle ==
    /\ u8_begin = 0
    /\ outstr_size = 0
    /\ u16out = <<>>
    /\ code_points = <<>>
    /\ size = 0
    /\ out32 = <<>>
    /\ res = [c \in Calls |-> NoResult]
    /\ last = NoLast

InitIter ==
    /\ \/ \E cp \in RoundTripCps :
             /\ origin = [wf |-> TRUE, cps |-> <<cp>>]
             /\ src = Utf8Encode(cp)
       \/ \E s \in SeqsUpTo(IterBytes, MaxIterLen) \cup BoundaryVectors :
             /\ origin = [wf |-> FALSE, cps |-> <<>>]
             /\ src = s
    /\ pc = "iter"
    /\ m_begin = 0
    /\ m_iter = <<>>
    /\ Idle

\* operator*
Deref ==
    /\ pc = "iter"
    /\ m_begin < Len(src)
    /\ LET d == deref(src, m_begin)
       IN  last' = Outcome("deref", m_begin, d.ok, d.cp, d.pos, <<>>)
    /\ UNCHANGED <<src, origin, pc, u8_begin, outstr_size, u16out, code_points,
                   m_begin, size, m_iter, out32, res>>

\* operator++
Incr ==
    /\ pc = "iter"
    /\ m_begin < Len(src)
    /\ LET i == incr(src, m_begin)
       IN  /\ m_begin' = IF i.ok THEN i.pos ELSE m_begin
           /\ last' = Outcome("incr", m_begin, i.ok, 0, i.pos, <<>>)
    /\ UNCHANGED <<src, origin, pc, u8_begin, outstr_size, u16out, code_points,
                   size, m_iter, out32, res>>

NextIter ==
    \/ Deref
    \/ Incr

SpecIter == InitIter /\ [][NextIter]_vars

-----------------------------------------------------------------------------
(* One to_utf16_iter over an empty sink, assigned code points one by one.  *)

InitAppend ==
    /\ src = <<>>
    /\ origin = [wf |-> FALSE, cps |-> <<>>]
    /\ pc = "append"
    /\ m_begin = 0
    /\ m_iter = <<>>
    /\ Idle

\* *it = code_point (proxy_assigner::operator=, which calls append)
Assign(code_point) ==
    /\ pc = "append"
    /\ Len(m_iter) < MaxSink
    /\ LET a == append(code_point)
       IN  /\ m_iter' = m_iter \o a.units
           /\ last' = Outcome("append", code_point, a.ok, 0, Len(m_iter), m_iter)
    /\ UNCHANGED <<src, origin, pc, u8_begin, outstr_size, u16out, code_points,
                   m_begin, size, out32, res>>

NextAppend ==
    \E code_point \in AppendCps : Assign(code_point)

SpecAppend == InitAppend /\ [][NextAppend]_vars

-----------------------------------------------------------------------------
(* The two header classifiers, applied to every byte value.                *)

InitHeader ==
    /\ \E b \in 0 .. 255 : src = <<b>>
    /\ origin = [wf |-> FALSE, cps |-> <<>>]
    /\ pc = "header"
    /\ m_begin = 0
    /\ m_iter = <<>>
    /\ Idle

\* detail::utf8_header_byte(b, code_point)
ClassifyConvert ==
    /\ pc = "header"
    /\ LET h == utf8_header_byte(src[1])
       IN  last' = Outcome("utf8_header_byte", src[1], h.cnt >= 0, h.cnt, 0, <<>>)
    /\ UNCHANGED <<src, origin, pc, u8_begin, outstr_size, u16out, code_points,
                   m_begin, size, m_iter, out32, res>>

\* from_utf8_range::iterator::compute_byte_count(b)
ClassifyLazy ==
    /\ pc = "header"
    /\ LET cnt == compute_byte_count(src[1])
       IN  last' = Outcome("compute_byte_count", src[1], cnt >= 0, cnt, 0, <<>>)
    /\ UNCHANGED <<src, origin, pc, u8_begin, outstr_size, u16out, code_points,
                   m_begin, size, m_iter, out32, res>>

NextHeader ==
    \/ ClassifyConvert
    \/ ClassifyLazy

SpecHeader == InitHeader /\ [][NextHeader]_vars

-----------------------------------------------------------------------------
(* What the design document states, in its own terms.                      *)

\* Section 4.1, the header table: the trailing-byte count a header byte
\* implies, -1 for an invalid header.
HeaderTable(b) ==
    IF b <= \h7F THEN 0
    ELSE IF b <= \hBF THEN -1
    ELSE IF b <= \hDF THEN 1
    ELSE IF b <= \hEF THEN 2
    ELSE IF b <= \hF7 THEN 3
    ELSE -1

IsTrailing(b) == \h80 <= b /\ b <= \hBF

\* The sequence whose header is under cursor m is malformed.
InvalidHeaderAt(s, m) == HeaderTable(s[m + 1]) = -1

TruncatedAt(s, m) ==
    /\ ~InvalidHeaderAt(s, m)
    /\ HeaderTable(s[m + 1]) > Len(s) - (m + 1)

BadTrailingAt(s, m) ==
    { k \in 1 .. HeaderTable(s[m + 1]) : ~IsTrailing(s[m + 1 + k]) }

MalformedAt(s, m) ==
    \/ InvalidHeaderAt(s, m)
    \/ TruncatedAt(s, m)
    \/ BadTrailingAt(s, m) # {}

Min(S) == CHOOSE x \in S : \A y \in S : x <= y

\* Some sequence start reached by decoding from cursor m has a defect.
RECURSIVE Malformed(_, _)
Malformed(s, m) ==
    IF m >= Len(s) THEN FALSE
    ELSE \/ MalformedAt(s, m)
         \/ Malformed(s, m + 1 + HeaderTable(s[m + 1]))

\* Section 4.4, the reference UTF-16 encoding of a code point <= 0x10FFFF.
RefUnits(cp) ==
    IF cp <= \hFFFF THEN <<cp>>
    ELSE << ((cp - \h10000) \div 1024) + \hD800, ((cp - \h10000) % 1024) + \hDC00 >>

RECURSIVE RefUtf16(_)
RefUtf16(c) ==
    IF c = <<>> THEN <<>> ELSE RefUnits(Head(c)) \o RefUtf16(Tail(c))

ConvertDone == res["convert_dry"].done /\ res["convert_fill"].done

-----------------------------------------------------------------------------
(* The claims.                                                             *)

\* C1: on a well-formed range convert returns the length of the reference
\* UTF-16 encoding of the encoded code points, dry run and filling run
\* alike, and the filling run writes exactly that encoding: one unit equal
\* to cp for every cp <= 0xFFFF (0xFFFF included), the surrogate pair for
\* every cp in [0x10000, 0x10FFFF].
C1_ConvertWellFormed ==
    (ConvertDone /\ origin.wf) =>
        /\ res["convert_dry"].ret = Len(RefUtf16(origin.cps))
        /\ res["convert_fill"].ret = Len(RefUtf16(origin.cps))
        /\ u16out = RefUtf16(origin.cps)

\* C2: for every byte range the dry run and the filling run of convert
\* return the same value, and a value other than -1 is the number of units
\* the filling run wrote.
C2_DryRunAgreesWithFill ==
    ConvertDone =>
        /\ res["convert_dry"].ret = res["convert_fill"].ret
        /\ res["convert_fill"].ret # -1 => Len(u16out) = res["convert_fill"].ret

C2_Witness ==
    /\ ConvertDone
    /\ res["convert_fill"].ret = 3
    /\ Len(u16out) = 3
    /\ \E i \in 1 .. Len(u16out) : u16out[i] >= \hD800 /\ u16out[i] <= \hDBFF

\* C3: convert returns -1, with or without a destination, exactly on the
\* ranges that have a defect at a sequence start reached by decoding (an
\* invalid header, a truncated sequence, a trailing byte outside
\* [0x80, 0xBF]); on every other range it returns a non-negative count.
C3_SentinelIffMalformed ==
    ConvertDone =>
        IF Malformed(src, 0)
        THEN res["convert_dry"].ret = -1 /\ res["convert_fill"].ret = -1
        ELSE res["convert_dry"].ret >= 0 /\ res["convert_fill"].ret >= 0

C3_Witness ==
    /\ ConvertDone
    /\ res["convert_fill"].ret = -1
    /\ src = <<\h41, \hC2, \h41>>
    /\ u16out = <<\h41>>
    /\ BadTrailingAt(src, 1) = {1}

\* C4: no call completes successfully having decoded (emitted or counted)
\* a value above 0x10FFFF: convert, to_utf16_size, to_utf16 and to_utf32
\* each report failure on such a range.
C4_AboveMaxRejected ==
    \A c \in Calls :
        (res[c].done /\ \E i \in 1 .. Len(res[c].cps) : res[c].cps[i] > \h10FFFF)
            => ~res[c].ok

\* C5: assigning a code point through to_utf16_iter appends, whatever the
\* sink already holds, one unit equal to cp for cp <= 0xFFFF, the pair
\* high = ((cp - 0x10000) >> 10) + 0xD800 in [0xD800, 0xDBFF] then
\* low = ((cp - 0x10000) & 0x3FF) + 0xDC00 in [0xDC00, 0xDFFF] for cp in
\* [0x10000, 0x10FFFF], and fails appending nothing for cp > 0x10FFFF.
C5_AppendEncodes ==
    last.op = "append" =>
        LET cp == last.at
        IN  IF cp <= \hFFFF
            THEN last.ok /\ m_iter = Append(last.before, cp)
            ELSE IF cp <= \h10FFFF
                 THEN LET high == ((cp - \h10000) \div 1024) + \hD800
                          low  == ((cp - \h10000) % 1024) + \hDC00
                      IN  /\ last.ok
                          /\ m_iter = last.before \o <<high, low>>
                          /\ \hD800 <= high /\ high <= \hDBFF
                          /\ \hDC00 <= low /\ low <= \hDFFF
                          /\ cp = \h10000 => <<high, low>> = <<\hD800, \hDC00>>
                          /\ cp = \h10FFFF => <<high, low>> = <<\hDBFF, \hDFFF>>
                 ELSE ~last.ok /\ m_iter = last.before

C5_Witness ==
    /\ last.op = "append"
    /\ last.at = \h10FFFF
    /\ last.before = <<\hFFFF>>
    /\ m_iter = <<\hFFFF, \hDBFF, \hDFFF>>

\* C6: dereferencing the iterator at the start of the standard UTF-8
\* encoding of a code point in [0, 0x10FFFF] outside the surrogates yields
\* that code point and no error.
C6_RoundTrip ==
    (last.op = "deref" /\ last.at = 0 /\ origin.wf) =>
        last.ok /\ last.val = origin.cps[1]

C6_Witness ==
    /\ last.op = "deref"
    /\ last.at = 0
    /\ origin.wf
    /\ src = <<\hF0, \h90, \h80, \h80>>
    /\ last.val = \h10000

\* C7: dereferencing at a malformed sequence throws, and the error carries
\* the cursor when the header is invalid or the sequence is truncated
\* (tested first), and otherwise the offset of the first trailing byte
\* outside [0x80, 0xBF].
C7_DerefErrorPosition ==
    (last.op = "deref" /\ MalformedAt(src, last.at)) =>
        /\ ~last.ok
        /\ last.pos = IF InvalidHeaderAt(src, last.at) \/ TruncatedAt(src, last.at)
                      THEN last.at
                      ELSE last.at + Min(BadTrailingAt(src, last.at))

\* Number of UTF-16 units of a code point sequence: 1 per cp <= 0xFFFF,
\* 2 per cp above it.
RECURSIVE UnitCount(_)
UnitCount(c) ==
    IF c = <<>> THEN 0
    ELSE (IF Head(c) <= \hFFFF THEN 1 ELSE 2) + UnitCount(Tail(c))

\* C8: on a valid UTF-8 range to_utf16_size and to_utf16 both succeed, and
\* to_utf16_size returns the number of units to_utf16 wrote: 1 per decoded
\* code point <= 0xFFFF, 2 per decoded code point above it.
C8_SizeAgreement ==
    (res["to_utf16_size"].done /\ res["to_utf16"].done /\ origin.wf) =>
        /\ res["to_utf16_size"].ok
        /\ res["to_utf16"].ok
        /\ res["to_utf16_size"].ret = Len(m_iter)
        /\ res["to_utf16_size"].ret = UnitCount(origin.cps)
        /\ res["to_utf16"].cps = origin.cps

C8_Witness ==
    /\ res["to_utf16_size"].done /\ res["to_utf16"].done /\ origin.wf
    /\ origin.cps = <<\hFFFF, \h10000, \h41>>
    /\ res["to_utf16_size"].ret = 4
    /\ Len(m_iter) = 4

\* C9: both classifiers implement the header table: 0 trailing bytes for
\* 0x00-0x7F, invalid for 0x80-0xBF, 1 for 0xC0-0xDF, 2 for 0xE0-0xEF,
\* 3 for 0xF0-0xF7, invalid from 0xF8 on (compute_byte_count reports the
\* total length, one more than the trailing count).
C9_SameStrictTable ==
    /\ last.op = "utf8_header_byte" => last.val = HeaderTable(last.at)
    /\ last.op = "compute_byte_count" =>
           last.val = IF HeaderTable(last.at) = -1 THEN -1 ELSE 1 + HeaderTable(last.at)

\* C10: operator++ fails exactly when operator* at the same cursor fails,
\* then leaving the cursor where it was; otherwise it moves the cursor by
\* 1 + trailing count, never past the end.
C10_AdvanceValidatesLikePeek ==
    last.op = "incr" =>
        /\ last.ok <=> deref(src, last.at).ok
        /\ ~last.ok => m_begin = last.at
        /\ last.ok => m_begin = last.at + 1 + HeaderTable(src[last.at + 1])
        /\ m_begin <= Len(src)

====
